---------------------------- MODULE Spec2Model ----------------------------
(***************************************************************************)
(* Task manager app (React Native): the task collection held by App, the   *)
(* three screens that reach it through callbacks fixed at navigation time, *)
(* the alerts and the delete animation whose callbacks run later, and the  *)
(* stand-alone TaskForm component.                                         *)
(*                                                                         *)
(* A JavaScript string is a sequence of one-character strings.  An ISO     *)
(* timestamp is the instant it denotes, in milliseconds: toISOString() and *)
(* new Date(iso).getTime() are inverse at that precision.                  *)
(***************************************************************************)
EXTENDS Integers, Sequences, FiniteSets, TLC

VARIABLES
    root,         \* the component the host renders: "App" or "TaskForm"
    tasks,        \* App: const [tasks, setTasks] = useState(mockTasks)
    now,          \* the last value Date.now() returned
    searchQuery,  \* HomeScreen: const [searchQuery, setSearchQuery]
    detail,       \* <<>> or <<d>>: the mounted TaskDetailScreen
    form,         \* <<>> or <<f>>: the mounted TaskFormScreen
    alert,        \* <<>> or <<a>>: the Alert on screen (before: history, the
                  \* collection and the screen's task when the toggle began)
    pending,      \* fade-out animations running, oldest first; at: nEvents at the start
    taskForm,     \* the TaskForm component's state
    submitted,    \* what TaskForm passed to onSubmit, in order
    last,         \* history: the handler that ran last and what it was given
    ideal,        \* history: every store call applied in order to the result of the previous
    deleted,      \* history: ids a handleDeleteTask call removed
    born,         \* history: <<id, createdAt>> of every record ever created
    nEvents       \* handlers and callbacks run so far

vars == <<root, tasks, now, searchQuery, detail, form, alert, pending, taskForm,
          submitted, last, ideal, deleted, born, nEvents>>

appVars == <<tasks, now, searchQuery, detail, form, alert, pending,
             ideal, deleted, born>>

-----------------------------------------------------------------------------
(* Bounds of the exploration *)

\* a session is at most this many handler and callback runs
MaxEvents == 6

\* at most this many handlers run between the start of a fade-out of 200 ms
\* and its completion callback
MaxFadeEvents == 2

-----------------------------------------------------------------------------
(* Strings *)

Rep(c, n) == [i \in 1..n |-> c]

WhiteSpace == {" ", "\t", "\n"}

UpperCase == <<"A","B","C","D","E","F","G","H","I","J","K","L","M","N","O","P","Q","R","S","T","U","V","W","X","Y","Z">>
LowerCase == <<"a","b","c","d","e","f","g","h","i","j","k","l","m","n","o","p","q","r","s","t","u","v","w","x","y","z">>

\* the lower-case letter of each upper-case letter
LowerOf ==
    [c \in {UpperCase[i] : i \in 1..Len(UpperCase)} |->
        LowerCase[CHOOSE i \in 1..Len(UpperCase) : UpperCase[i] = c]]

\* String.prototype.toLowerCase, one character
LowerChar(c) == IF c \in DOMAIN LowerOf THEN LowerOf[c] ELSE c

\* a comparison that keeps the case
LowerIdentity(s) == s

\* String.prototype.toLowerCase
toLowerCase(s) == [i \in 1..Len(s) |-> LowerChar(s[i])]

\* a search that finds nothing for the empty string
includesNonEmpty(s, q) ==
    /\ q # <<>>
    /\ \E i \in 0..(Len(s) - Len(q)) : SubSeq(s, i + 1, i + Len(q)) = q

\* String.prototype.includes
includes(s, q) ==
    \E i \in 0..(Len(s) - Len(q)) : SubSeq(s, i + 1, i + Len(q)) = q

\* String.prototype.trim
trim(s) ==
    LET keep == {i \in 1..Len(s) : s[i] \notin WhiteSpace}
    IN IF keep = {} THEN <<>>
       ELSE SubSeq(s, CHOOSE i \in keep : \A j \in keep : i <= j,
                      CHOOSE i \in keep : \A j \in keep : j <= i)

-----------------------------------------------------------------------------
(* Task records and the initial collection *)

DayMs == 86400000

\* Date.now() when the module that defines mockTasks is loaded
LoadTime == 10 * DayMs

Title1 == <<"E","x","a","m","p","l","e"," ","T","a","s","k">>
Desc1 == <<"T","h","i","s"," ","i","s"," ","a","n"," ","e","x","a","m","p","l","e"," ","t","a","s","k"," ","f","o","r"," ","t","e","s","t","i","n","g"," ","p","u","r","p","o","s","e","s">>
Title2 == <<"R","e","a","d"," ","R","e","a","c","t"," ","N","a","t","i","v","e"," ","D","o","c","u","m","e","n","t","a","t","i","o","n">>
Desc2 == <<"L","e","a","r","n"," ","a","b","o","u","t"," ","n","a","v","i","g","a","t","i","o","n"," ","a","n","d"," ","s","t","a","t","e"," ","m","a","n","a","g","e","m","e","n","t"," ","i","n"," ","R","e","a","c","t"," ","N","a","t","i","v","e">>
Title3 == <<"C","o","m","p","l","e","t","e"," ","T","u","t","o","r","i","a","l">>
Desc3 == <<"F","i","n","i","s","h"," ","t","h","e"," ","R","e","a","c","t"," ","N","a","t","i","v","e"," ","t","a","s","k"," ","m","a","n","a","g","e","r"," ","t","u","t","o","r","i","a","l">>

Task(id, title, description, createdAt, status) ==
    [id |-> id, title |-> title, description |-> description,
     createdAt |-> createdAt, status |-> status]

mockTasks ==
    << Task("1", Title1, Desc1, LoadTime, "pending"),
       Task("2", Title2, Desc2, LoadTime - DayMs, "pending"),
       Task("3", Title3, Desc3, LoadTime - 2 * DayMs, "completed") >>

Ids(ts) == {ts[i].id : i \in 1..Len(ts)}

Range(s) == {s[i] : i \in 1..Len(s)}

\* Array.prototype.find, as <<>> (undefined) or <<t>>
find(ts, id) ==
    LET hits == SelectSeq(ts, LAMBDA t : t.id = id)
    IN IF hits = <<>> THEN <<>> ELSE <<Head(hits)>>

-----------------------------------------------------------------------------
(* App: the three store callbacks.  Each closes over the `tasks` of the    *)
(* render that created it (ts) and calls setTasks with a value computed    *)
(* from that.                                                              *)

\* an add that puts the new record first
handleAddTaskFirst(ts, newTask) == <<newTask>> \o ts

handleAddTask(ts, newTask) == Append(ts, newTask)

handleUpdateTask(ts, updatedTask) ==
    [i \in 1..Len(ts) |-> IF ts[i].id = updatedTask.id THEN updatedTask ELSE ts[i]]

handleDeleteTask(ts, taskId) == SelectSeq(ts, LAMBDA t : t.id # taskId)

-----------------------------------------------------------------------------
(* HomeScreen: the displayed list *)

matches(task, query) ==
    \/ includes(toLowerCase(task.title), toLowerCase(query))
    \/ includes(toLowerCase(task.description), toLowerCase(query))

filteredTasks(ts, query) == SelectSeq(ts, LAMBDA t : matches(t, query))

\* a comparator that looks at the dates only
compareByDateOnly(a, b) == b.createdAt - a.createdAt

\* a comparator with the dates the other way round
compareOldestFirst(a, b) ==
    IF a.status = "pending" /\ b.status = "completed" THEN -1
    ELSE IF a.status = "completed" /\ b.status = "pending" THEN 1
    ELSE a.createdAt - b.createdAt

\* the comparator handed to sort: negative, zero or positive
compare(a, b) ==
    IF a.status = "pending" /\ b.status = "completed" THEN -1
    ELSE IF a.status = "completed" /\ b.status = "pending" THEN 1
    ELSE b.createdAt - a.createdAt

\* an insertion that puts x before the elements the comparator gives 0 for
RECURSIVE InsertBeforeEquals(_, _)
InsertBeforeEquals(x, s) ==
    IF s = <<>> THEN <<x>>
    ELSE IF compare(x, Head(s)) <= 0 THEN <<x>> \o s
    ELSE <<Head(s)>> \o InsertBeforeEquals(x, Tail(s))

\* Array.prototype.sort (stable): insert x after the last element not after it
RECURSIVE Insert(_, _)
Insert(x, s) ==
    IF s = <<>> THEN <<x>>
    ELSE IF compare(x, Head(s)) < 0 THEN <<x>> \o s
    ELSE <<Head(s)>> \o Insert(x, Tail(s))

RECURSIVE Sort(_)
Sort(s) == IF s = <<>> THEN <<>> ELSE Insert(s[Len(s)], Sort(SubSeq(s, 1, Len(s) - 1)))

sortedTasks(ts, query) == Sort(filteredTasks(ts, query))

\* a render that sorts the array of the props itself
renderSortingProps(ts, query) ==
    LET sorted == Sort(ts)
    IN [tasks |-> sorted, filteredTasks |-> filteredTasks(sorted, query),
        sortedTasks |-> Sort(filteredTasks(sorted, query))]

\* the arrays in memory after HomeScreen's render has computed the list: the
\* array of the props, the new array filter returns, and the copy [...] makes
\* of it, which sort orders in place
render(ts, query) ==
    LET props == [tasks |-> ts]
        filtered == [tasks |-> props.tasks,
                     filteredTasks |-> filteredTasks(props.tasks, query)]
        copied == [tasks |-> filtered.tasks,
                   filteredTasks |-> filtered.filteredTasks,
                   sortedTasks |-> filtered.filteredTasks]
    IN [copied EXCEPT !.sortedTasks = Sort(@)]

\* the place of the "]" that closes a character class whose content begins
\* at i in the pattern p; 0 when nothing closes it
RECURSIVE ClassEnd(_, _)
ClassEnd(p, i) ==
    IF i > Len(p) THEN 0
    ELSE IF p[i] = "\\" THEN ClassEnd(p, i + 2)
    ELSE IF p[i] = "]" THEN i
    ELSE ClassEnd(p, i + 1)

\* new RegExp(p, 'gi') throws a SyntaxError, for a pattern of letters, white
\* space and the characters ( ) [ ] * and backslash, read from place i on
\* with depth groups open; atom: what stands before i can be repeated
RECURSIVE SyntaxError(_, _, _, _)
SyntaxError(p, i, depth, atom) ==
    IF i > Len(p) THEN depth # 0
    ELSE IF p[i] = "\\" THEN i = Len(p) \/ SyntaxError(p, i + 2, depth, TRUE)
    ELSE IF p[i] = "[" THEN \/ ClassEnd(p, i + 1) = 0
                            \/ SyntaxError(p, ClassEnd(p, i + 1) + 1, depth, TRUE)
    ELSE IF p[i] = "(" THEN SyntaxError(p, i + 1, depth + 1, FALSE)
    ELSE IF p[i] = ")" THEN depth = 0 \/ SyntaxError(p, i + 1, depth - 1, TRUE)
    ELSE IF p[i] = "*" THEN ~atom \/ SyntaxError(p, i + 1, depth, FALSE)
    ELSE SyntaxError(p, i + 1, depth, TRUE)

\* highlightText(text, highlight) throws: it returns text for a blank
\* highlight or an empty text, and builds the RegExp of `(${highlight})`
\* otherwise
highlightTextThrows(text, highlight) ==
    /\ trim(highlight) # <<>>
    /\ text # <<>>
    /\ SyntaxError(<<"(">> \o highlight \o <<")">>, 1, 0, FALSE)

\* HomeScreen's render throws: renderTaskItem of a displayed record calls
\* highlightText on its title when searchQuery is not empty
RenderThrows(ts, query) ==
    /\ query # <<>>
    /\ \E k \in 1..Len(ts) : matches(ts[k], query) /\ highlightTextThrows(ts[k].title, query)

NoTasksYet == "No tasks yet"
NoMatching == "No matching tasks found"

\* the text FlatList puts in place of the list: its ListEmptyComponent when
\* data is empty, nothing ("") otherwise
ListEmptyComponent(data, query) ==
    IF data # <<>> THEN ""
    ELSE IF query # <<>> THEN NoMatching ELSE NoTasksYet

-----------------------------------------------------------------------------
(* What the user types *)

PaddedTitle == <<" ">> \o Rep("x", 48) \o <<" ">>

TitleInputs == { <<" ">>, PaddedTitle, Rep("x", 51) }

DescInputs == { <<" ">>, <<" ", "m", "i", "l", "k", "\n">> }

TypedQueries == { <<"T", "A", "S", "K">>, <<"z">> }

-----------------------------------------------------------------------------
(* The navigator and the alert.  One screen has the focus: the one on top  *)
(* of the stack Home, TaskDetailScreen, TaskFormScreen, and an Alert on    *)
(* screen takes every touch until one of its buttons is pressed.           *)

HomeFocused == root = "App" /\ detail = <<>> /\ form = <<>> /\ alert = <<>>

DetailFocused == root = "App" /\ detail # <<>> /\ form = <<>> /\ alert = <<>>

FormFocused == root = "App" /\ form # <<>> /\ alert = <<>>

\* navigation.goBack(): the navigator removes the screen on top of the stack
GoBack ==
    IF form # <<>> THEN form' = <<>> /\ UNCHANGED detail
    ELSE detail' = <<>> /\ UNCHANGED form

Flip(status) == IF status = "completed" THEN "pending" ELSE "completed"

\* the bookkeeping of every step: what ran, and on which task id ("" for none).
\* No handler runs after a render of HomeScreen has thrown, and a fade-out
\* ends before more than MaxFadeEvents handlers have run.
DidOn(op, id) ==
    /\ nEvents < MaxEvents
    /\ ~RenderThrows(tasks, searchQuery)
    /\ (pending # <<>> /\ op # "FadeOutEnd") => nEvents < Head(pending).at + MaxFadeEvents
    /\ nEvents' = nEvents + 1
    /\ last' = [op |-> op, id |-> id]
    /\ UNCHANGED root

Did(op) == DidOn(op, "")

-----------------------------------------------------------------------------
(* HomeScreen handlers.  HomeScreen is rendered by App on every change of  *)
(* `tasks`, so its onAddTask, onUpdate and onDelete are those of the       *)
(* current render.                                                         *)

Init ==
    /\ root \in {"App", "TaskForm"}
    /\ tasks = mockTasks
    /\ now = LoadTime
    /\ searchQuery = <<>>
    /\ detail = <<>>
    /\ form = <<>>
    /\ alert = <<>>
    /\ pending = <<>>
    /\ taskForm = [task |-> <<>>, title |-> <<>>, description |-> <<>>, error |-> ""]
    /\ submitted = <<>>
    /\ last = [op |-> "init", id |-> ""]
    /\ ideal = mockTasks
    /\ deleted = {}
    /\ born = {<<mockTasks[i].id, mockTasks[i].createdAt>> : i \in 1..Len(mockTasks)}
    /\ nEvents = 0

setSearchQuery(text) ==
    /\ HomeFocused
    /\ searchQuery' = text
    /\ tasks' = render(tasks, text).tasks
    /\ Did("setSearchQuery")
    /\ UNCHANGED <<now, detail, form, alert, pending, taskForm, submitted,
                   ideal, deleted, born>>

clearSearch ==
    /\ HomeFocused
    /\ Len(searchQuery) > 0
    /\ searchQuery' = <<>>
    /\ tasks' = render(tasks, <<>>).tasks
    /\ Did("clearSearch")
    /\ UNCHANGED <<now, detail, form, alert, pending, taskForm, submitted,
                   ideal, deleted, born>>

handleTaskPress(task) ==
    /\ HomeFocused
    /\ detail' = << [task |-> task, snap |-> tasks] >>
    /\ Did("handleTaskPress")
    /\ UNCHANGED <<tasks, now, searchQuery, form, alert, pending, taskForm, submitted,
                   ideal, deleted, born>>

HomeHandleAddTask ==
    /\ HomeFocused
    /\ form' = << [task |-> <<>>, from |-> "home", snap |-> tasks,
                   title |-> <<>>, description |-> <<>>, status |-> "pending",
                   titleError |-> ""] >>
    /\ Did("handleAddTask")
    /\ UNCHANGED <<tasks, now, searchQuery, detail, alert, pending, taskForm, submitted,
                   ideal, deleted, born>>

\* what handleToggleStatus(id) hands to setTasks when its onUpdate closes over ts
HomeToggled(ts, id) ==
    LET taskToUpdate == find(ts, id)
    IN IF taskToUpdate # <<>>
       THEN handleUpdateTask(ts, [taskToUpdate[1] EXCEPT !.status = Flip(@)])
       ELSE ts

HomeHandleToggleStatus(id) ==
    /\ HomeFocused
    /\ tasks' = HomeToggled(tasks, id)
    /\ ideal' = LET taskToUpdate == find(tasks, id)
                IN IF taskToUpdate # <<>>
                   THEN handleUpdateTask(ideal, [taskToUpdate[1] EXCEPT !.status = Flip(@)])
                   ELSE ideal
    /\ DidOn("HomeToggle", id)
    /\ UNCHANGED <<now, searchQuery, detail, form, alert, pending, taskForm, submitted,
                   deleted, born>>

HomeDelete(id) ==
    /\ HomeFocused
    /\ tasks' = handleDeleteTask(tasks, id)
    /\ ideal' = handleDeleteTask(ideal, id)
    /\ deleted' = IF id \in Ids(tasks) THEN deleted \cup {id} ELSE deleted
    /\ DidOn("HomeDelete", id)
    /\ UNCHANGED <<now, searchQuery, detail, form, alert, pending, taskForm, submitted,
                   born>>

-----------------------------------------------------------------------------
(* TaskDetailScreen.  Its onUpdate and onDelete are the route parameters   *)
(* HomeScreen passed in handleTaskPress: they set `tasks` from the         *)
(* collection of that render (snap), whatever the collection is by now.    *)

\* what handleToggleStatus of the detail screen d hands to setTasks
DetailToggled(d) == handleUpdateTask(d.snap, [d.task EXCEPT !.status = Flip(@)])

DetailHandleToggleStatus ==
    /\ DetailFocused
    /\ LET task == detail[1].task
           updatedTask == [task EXCEPT !.status = Flip(@)]
       IN /\ detail' = << [detail[1] EXCEPT !.task = updatedTask] >>
          /\ tasks' = DetailToggled(detail[1])
          /\ ideal' = handleUpdateTask(ideal, updatedTask)
          /\ alert' = << [kind |-> "Status Changed", task |-> task,
                          snap |-> detail[1].snap,
                          before |-> [tasks |-> tasks, task |-> task]] >>
    /\ DidOn("DetailToggle", detail[1].task.id)
    /\ UNCHANGED <<now, searchQuery, form, pending, taskForm, submitted,
                   deleted, born>>

\* a button without onPress: OK of "Status Changed", OK of "Status Updated",
\* Cancel of "Confirm Delete"
AlertDismiss ==
    /\ alert # <<>>
    /\ alert' = <<>>
    /\ Did("AlertDismiss")
    /\ UNCHANGED <<tasks, now, searchQuery, detail, form, pending, taskForm, submitted,
                   ideal, deleted, born>>

\* an Undo that reverts the record of the collection and leaves the screen's
\* task as it is
AlertUndoStoreOnly ==
    /\ alert # <<>>
    /\ alert[1].kind = "Status Changed"
    /\ LET revertedTask == [alert[1].task EXCEPT !.status = alert[1].task.status]
       IN /\ tasks' = handleUpdateTask(alert[1].snap, revertedTask)
          /\ ideal' = handleUpdateTask(ideal, revertedTask)
    /\ alert' = <<>>
    /\ DidOn("AlertUndo", alert[1].task.id)
    /\ UNCHANGED <<now, searchQuery, detail, form, pending, taskForm, submitted,
                   deleted, born>>

\* Undo of "Status Changed": the task of the render that showed the alert
AlertUndo ==
    /\ alert # <<>>
    /\ alert[1].kind = "Status Changed"
    /\ LET revertedTask == [alert[1].task EXCEPT !.status = alert[1].task.status]
       IN /\ detail' = IF detail = <<>> THEN <<>>
                       ELSE << [detail[1] EXCEPT !.task = revertedTask] >>
          /\ tasks' = handleUpdateTask(alert[1].snap, revertedTask)
          /\ ideal' = handleUpdateTask(ideal, revertedTask)
    /\ alert' = <<>>
    /\ DidOn("AlertUndo", alert[1].task.id)
    /\ UNCHANGED <<now, searchQuery, form, pending, taskForm, submitted,
                   deleted, born>>

handleEdit ==
    /\ DetailFocused
    /\ LET task == detail[1].task
       IN form' = << [task |-> <<task>>, from |-> "detail", snap |-> detail[1].snap,
                      title |-> task.title, description |-> task.description,
                      status |-> task.status, titleError |-> ""] >>
    /\ Did("handleEdit")
    /\ UNCHANGED <<tasks, now, searchQuery, detail, alert, pending, taskForm, submitted,
                   ideal, deleted, born>>

\* a Delete button that starts the deletion without a prompt
handleDeleteAtOnce ==
    /\ DetailFocused
    /\ pending' = Append(pending, [id |-> detail[1].task.id, snap |-> detail[1].snap,
                                   at |-> nEvents + 1])
    /\ Did("handleDelete")
    /\ UNCHANGED <<tasks, now, searchQuery, detail, form, alert, taskForm, submitted,
                   ideal, deleted, born>>

handleDelete ==
    /\ DetailFocused
    /\ alert' = << [kind |-> "Confirm Delete", task |-> detail[1].task,
                    snap |-> detail[1].snap] >>
    /\ Did("handleDelete")
    /\ UNCHANGED <<tasks, now, searchQuery, detail, form, pending, taskForm, submitted,
                   ideal, deleted, born>>

\* Delete of "Confirm Delete": starts the 200 ms fade-out; onDelete and goBack
\* run in its completion callback
AlertDelete ==
    /\ alert # <<>>
    /\ alert[1].kind = "Confirm Delete"
    /\ pending' = Append(pending, [id |-> alert[1].task.id, snap |-> alert[1].snap,
                                   at |-> nEvents + 1])
    /\ alert' = <<>>
    /\ Did("AlertDelete")
    /\ UNCHANGED <<tasks, now, searchQuery, detail, form, taskForm, submitted,
                   ideal, deleted, born>>

\* the completion callback of the fade-out
FadeOutEnd ==
    /\ pending # <<>>
    /\ LET cb == Head(pending)
       IN /\ tasks' = handleDeleteTask(cb.snap, cb.id)
          /\ ideal' = handleDeleteTask(ideal, cb.id)
          /\ deleted' = IF cb.id \in Ids(tasks) /\ cb.id \notin Ids(tasks')
                        THEN deleted \cup {cb.id} ELSE deleted
    /\ GoBack
    /\ pending' = Tail(pending)
    /\ DidOn("FadeOutEnd", Head(pending).id)
    /\ UNCHANGED <<now, searchQuery, alert, taskForm, submitted, born>>

\* the header's back button of the stack navigator
DetailBack ==
    /\ DetailFocused
    /\ detail' = <<>>
    /\ Did("DetailBack")
    /\ UNCHANGED <<tasks, now, searchQuery, form, alert, pending, taskForm, submitted,
                   ideal, deleted, born>>

-----------------------------------------------------------------------------
(* TaskFormScreen.  onSave is the route parameter: from HomeScreen the     *)
(* closure over onAddTask, from TaskDetailScreen the closure of handleEdit. *)

MaxTitleLength == 50

ErrEmpty == "Task title cannot be empty"
ErrTooLong == "Title must be less than 50 characters"

\* the title input's maxLength
maxLength == 50

\* what the title input delivers to onChangeText when entered is put in
Entered(entered) ==
    IF Len(entered) > maxLength THEN SubSeq(entered, 1, maxLength) ELSE entered

\* the title input's onChangeText, called with text
onChangeText(text) ==
    /\ FormFocused
    /\ form' = << [form[1] EXCEPT !.title = text,
                                  !.titleError = IF trim(text) # <<>> THEN "" ELSE @] >>
    /\ Did("setTitle")
    /\ UNCHANGED <<tasks, now, searchQuery, detail, alert, pending, taskForm, submitted,
                   ideal, deleted, born>>

\* the user puts entered into the title input
FormSetTitle(entered) == onChangeText(Entered(entered))

FormSetDescription(text) ==
    /\ FormFocused
    /\ form' = << [form[1] EXCEPT !.description = text] >>
    /\ Did("setDescription")
    /\ UNCHANGED <<tasks, now, searchQuery, detail, alert, pending, taskForm, submitted,
                   ideal, deleted, born>>

handleStatusToggle(value) ==
    /\ FormFocused
    /\ form' = << [form[1] EXCEPT !.status = IF value THEN "completed" ELSE "pending"] >>
    /\ Did("handleStatusToggle")
    /\ UNCHANGED <<tasks, now, searchQuery, detail, alert, pending, taskForm, submitted,
                   ideal, deleted, born>>

\* a validation of the text as entered, not trimmed
ValidateUntrimmed(title) ==
    IF title = <<>> THEN ErrEmpty
    ELSE IF Len(title) > MaxTitleLength THEN ErrTooLong
    ELSE ""

\* a validation that takes the limit as its message words it: less than 50
validateFormLessThan(title) ==
    IF trim(title) = <<>> THEN ErrEmpty
    ELSE IF Len(trim(title)) >= MaxTitleLength THEN ErrTooLong
    ELSE ""

\* the titleError validateForm leaves: "" when it returns true
validateForm(title) ==
    IF trim(title) = <<>> THEN ErrEmpty
    ELSE IF Len(trim(title)) > MaxTitleLength THEN ErrTooLong
    ELSE ""

\* records built otherwise than handleSave builds them: with a fixed status,
\* with the text as entered, with an id counted from the collection, and an
\* edit that stamps the record anew
NewTaskCompleted(f, t) ==
    Task(ToString(t), trim(f.title), trim(f.description), t, "completed")

NewTaskUntrimmed(f, t) ==
    Task(ToString(t), f.title, f.description, t, f.status)

NewTaskCountId(f, t) ==
    Task(ToString(Len(f.snap) + 1), trim(f.title), trim(f.description), t, f.status)

\* a record stamped three days before its creation
NewTaskBackdated(f, t) ==
    Task(ToString(t), trim(f.title), trim(f.description), t - 3 * DayMs, f.status)

\* updatedTask of handleSave in create mode; t is Date.now()
NewTask(f, t) ==
    Task(ToString(t), trim(f.title), trim(f.description), t, f.status)

EditedTaskRestamped(f, t) ==
    Task(f.task[1].id, trim(f.title), trim(f.description), t, f.status)

\* an edit that saves the status a new record starts with, and an edit that
\* saves the title as entered
EditedTaskPending(f, t) ==
    Task(f.task[1].id, trim(f.title), trim(f.description), f.task[1].createdAt, "pending")

EditedTaskUntrimmed(f, t) ==
    Task(f.task[1].id, f.title, trim(f.description), f.task[1].createdAt, f.status)

\* updatedTask of handleSave in edit mode
EditedTask(f, t) ==
    Task(f.task[1].id, trim(f.title), trim(f.description), f.task[1].createdAt, f.status)

handleSaveRejected ==
    /\ FormFocused
    /\ validateForm(form[1].title) # ""
    /\ form' = << [form[1] EXCEPT !.titleError = validateForm(form[1].title)] >>
    /\ Did("handleSaveRejected")
    /\ UNCHANGED <<tasks, now, searchQuery, detail, alert, pending, taskForm, submitted,
                   ideal, deleted, born>>

handleSaveCreate ==
    /\ FormFocused
    /\ form[1].task = <<>>
    /\ validateForm(form[1].title) = ""
    /\ now' = now + 1
    /\ LET updatedTask == NewTask(form[1], now')
       IN /\ tasks' = handleAddTask(form[1].snap, updatedTask)
          /\ ideal' = handleAddTask(ideal, updatedTask)
          /\ born' = born \cup {<<updatedTask.id, updatedTask.createdAt>>}
    /\ GoBack
    /\ DidOn("handleSaveCreate", ToString(now'))
    /\ UNCHANGED <<searchQuery, alert, pending, taskForm, submitted, deleted>>

handleSaveEdit ==
    /\ FormFocused
    /\ form[1].task # <<>>
    /\ validateForm(form[1].title) = ""
    /\ LET updatedTask == EditedTask(form[1], now)
       IN /\ tasks' = handleUpdateTask(form[1].snap, updatedTask)
          /\ ideal' = handleUpdateTask(ideal, updatedTask)
          /\ alert' = IF updatedTask.status # form[1].task[1].status
                      THEN << [kind |-> "Status Updated", task |-> updatedTask,
                               snap |-> form[1].snap] >>
                      ELSE alert
          /\ form' = <<>>
          /\ detail' = IF detail = <<>> THEN <<>>
                       ELSE << [detail[1] EXCEPT !.task = updatedTask] >>
    /\ DidOn("handleSaveEdit", form[1].task[1].id)
    /\ UNCHANGED <<now, searchQuery, pending, taskForm, submitted, deleted, born>>

\* the Cancel button: navigation.goBack()
FormCancel ==
    /\ FormFocused
    /\ GoBack
    /\ Did("FormCancel")
    /\ UNCHANGED <<tasks, now, searchQuery, alert, pending, taskForm, submitted,
                   ideal, deleted, born>>

-----------------------------------------------------------------------------
(* The TaskForm component.  No screen of App renders it: a run renders     *)
(* either App or TaskForm (root), TaskForm with any task prop and an       *)
(* onSubmit that records what it is called with.                           *)

TFErrEmpty == "Title cannot be empty"

TaskFormMount(task) ==
    /\ root = "TaskForm"
    /\ taskForm' = [task |-> task,
                    title |-> IF task = <<>> THEN <<>> ELSE task[1].title,
                    description |-> IF task = <<>> THEN <<>> ELSE task[1].description,
                    error |-> ""]
    /\ submitted' = <<>>
    /\ Did("TaskFormMount")
    /\ UNCHANGED appVars

TaskFormSetTitle(text) ==
    /\ root = "TaskForm"
    /\ taskForm' = [taskForm EXCEPT !.title = text]
    /\ Did("TaskFormSetTitle")
    /\ UNCHANGED <<submitted>>
    /\ UNCHANGED appVars

TaskFormSetDescription(text) ==
    /\ root = "TaskForm"
    /\ taskForm' = [taskForm EXCEPT !.description = text]
    /\ Did("TaskFormSetDescription")
    /\ UNCHANGED <<submitted>>
    /\ UNCHANGED appVars

handleSubmit ==
    /\ root = "TaskForm"
    /\ IF trim(taskForm.title) = <<>>
       THEN /\ taskForm' = [taskForm EXCEPT !.error = TFErrEmpty]
            /\ UNCHANGED submitted
       ELSE /\ submitted' = Append(submitted,
                   [title |-> trim(taskForm.title),
                    description |-> trim(taskForm.description),
                    status |-> IF taskForm.task # <<>> THEN taskForm.task[1].status
                               ELSE "pending"])
            /\ taskForm' = [taskForm EXCEPT !.error = "", !.title = <<>>,
                                            !.description = <<>>]
    /\ Did("handleSubmit")
    /\ UNCHANGED appVars

-----------------------------------------------------------------------------

Next ==
    \/ \E q \in TypedQueries : setSearchQuery(q)
    \/ clearSearch
    \/ \E item \in Range(sortedTasks(tasks, searchQuery)) : handleTaskPress(item)
    \/ \E item \in Range(sortedTasks(tasks, searchQuery)) : HomeHandleToggleStatus(item.id)
    \/ \E item \in Range(sortedTasks(tasks, searchQuery)) : HomeDelete(item.id)
    \/ HomeHandleAddTask
    \/ DetailHandleToggleStatus
    \/ AlertDismiss
    \/ AlertUndo
    \/ handleEdit
    \/ handleDelete
    \/ AlertDelete
    \/ FadeOutEnd
    \/ DetailBack
    \/ \E t \in TitleInputs : FormSetTitle(t)
    \/ \E d \in DescInputs : FormSetDescription(d)
    \/ \E v \in BOOLEAN : handleStatusToggle(v)
    \/ handleSaveRejected
    \/ handleSaveCreate
    \/ handleSaveEdit
    \/ FormCancel

    \/ \E t \in {<<>>} \cup {<<mockTasks[i]>> : i \in 1..Len(mockTasks)} : TaskFormMount(t)
    \/ \E t \in TitleInputs : TaskFormSetTitle(t)
    \/ \E d \in DescInputs : TaskFormSetDescription(d)
    \/ handleSubmit

Spec == Init /\ [][Next]_vars

-----------------------------------------------------------------------------
(* Claims *)

\* C1: once a delete call has removed a record, no later state holds a record
\* with that id, in the collection or in the list displayed for the empty query
C1_DeletionIsPermanent ==
    \A id \in deleted :
        /\ id \notin Ids(tasks)
        /\ id \notin Ids(sortedTasks(tasks, <<>>))

\* C2: the collection is the result of applying every add, update and delete
\* call, in the order of the calls, each to the collection the previous one left
C2_CallsApplyInOrder == tasks = ideal

\* C3: every record of the collection has the id and the createdAt it was
\* created with, and no id was created with two different createdAt
C3_IdAndCreatedAtKept ==
    /\ \A i \in 1..Len(tasks) : <<tasks[i].id, tasks[i].createdAt>> \in born
    /\ \A p \in born : \A q \in born : p[1] = q[1] => p = q

\* an edit saved from the form and a toggle have both changed the record "2"
C3_Witness ==
    \E i \in 1..Len(tasks) :
        /\ tasks[i].id = "2"
        /\ tasks[i].title = Rep("x", 50)
        /\ tasks[i].status = "completed"
        /\ last.op \in {"HomeToggle", "DetailToggle", "AlertUndo"}

\* C4: no two records of the collection have the same id
C4_IdsUnique ==
    \A i \in 1..Len(tasks) : \A j \in 1..Len(tasks) :
        tasks[i].id = tasks[j].id => i = j

\* a second record has just been created beside an earlier created one and
\* the three initial ones
C4_Witness ==
    /\ last.op = "handleSaveCreate"
    /\ Len(tasks) = 5
    /\ {"1", "2", "3"} \subseteq Ids(tasks)

-----------------------------------------------------------------------------
(* What the claims say of strings, stated without the operators above *)

Blank(s) == \A i \in 1..Len(s) : s[i] \in WhiteSpace

\* r is s without its leading and trailing white space
IsTrimOf(r, s) ==
    \E a \in 0..Len(s) : \E b \in a..Len(s) :
        /\ r = SubSeq(s, a + 1, b)
        /\ \A i \in 1..a : s[i] \in WhiteSpace
        /\ \A i \in (b + 1)..Len(s) : s[i] \in WhiteSpace
        /\ r # <<>> => r[1] \notin WhiteSpace /\ r[Len(r)] \notin WhiteSpace

\* s without its leading and trailing white space is longer than 50
LongAfterTrim(s) ==
    \E a \in 1..Len(s) : \E b \in a..Len(s) :
        s[a] \notin WhiteSpace /\ s[b] \notin WhiteSpace /\ b - a + 1 > 50

CasePairs == { <<UpperCase[i], LowerCase[i]>> : i \in 1..Len(UpperCase) }

SameLetter(c, d) == c = d \/ <<c, d>> \in CasePairs \/ <<d, c>> \in CasePairs

\* q occurs in s at some offset, letters compared without regard to case
ContainsIgnoringCase(s, q) ==
    \E k \in 0..(Len(s) - Len(q)) : \A j \in 1..Len(q) : SameLetter(s[k + j], q[j])

SaveOps == {"handleSaveRejected", "handleSaveCreate", "handleSaveEdit"}

\* C5: a create-mode save of a title that is non-empty and at most 50 long
\* after trimming is accepted, appends exactly one record to the collection,
\* and the record holds the trimmed title and the trimmed description
C5_CreateAddsTrimmedRecord ==
    [][ /\ last'.op = "handleSaveCreate" =>
            /\ Len(tasks') = Len(tasks) + 1
            /\ SubSeq(tasks', 1, Len(tasks)) = tasks
            /\ IsTrimOf(tasks'[Len(tasks')].title, form[1].title)
            /\ IsTrimOf(tasks'[Len(tasks')].description, form[1].description)
        /\ (last'.op = "handleSaveRejected" /\ form[1].task = <<>>) =>
            \/ Blank(form[1].title)
            \/ LongAfterTrim(form[1].title)
      ]_vars

\* a record was just created from the title and the description that were
\* entered with white space around them
C5_Witness ==
    /\ last.op = "handleSaveCreate"
    /\ Len(tasks) = 4
    /\ tasks[4].title = Rep("x", 48)
    /\ tasks[4].description = <<"m", "i", "l", "k">>

\* C6: a submission whose title is empty or white space only sets the
\* empty-title error, calls nothing and leaves the collection as it was
C6_EmptyTitleRejected ==
    [][ /\ (last'.op \in SaveOps /\ Blank(form[1].title)) =>
            /\ last'.op = "handleSaveRejected"
            /\ form'[1].titleError = ErrEmpty
            /\ tasks' = tasks /\ ideal' = ideal /\ detail' = detail
        /\ (last'.op = "handleSubmit" /\ Blank(taskForm.title)) =>
            /\ taskForm'.error = TFErrEmpty
            /\ submitted' = submitted
            /\ tasks' = tasks
      ]_vars

\* an edit of an existing task was submitted with a white-space title
C6_Witness ==
    /\ last.op = "handleSaveRejected"
    /\ form[1].task # <<>>
    /\ form[1].title = <<" ">>
    /\ form[1].titleError = ErrEmpty

\* C7: a submission whose trimmed title is longer than 50 sets an error and
\* leaves the collection as it was, in TaskFormScreen and in TaskForm
C7_TooLongRejectedEverywhere ==
    [][ /\ (last'.op \in SaveOps /\ LongAfterTrim(form[1].title)) =>
            /\ last'.op = "handleSaveRejected"
            /\ form'[1].titleError = ErrTooLong
            /\ tasks' = tasks
        /\ (last'.op = "handleSubmit" /\ LongAfterTrim(taskForm.title)) =>
            /\ taskForm'.error # ""
            /\ submitted' = submitted
      ]_vars

\* C8 as claimed: the record a create-mode save produces has status pending
C8_CreatedIsPending ==
    last.op = "handleSaveCreate" => tasks[Len(tasks)].status = "pending"

\* C8 as amended: the create form opens with status pending, and the record a
\* create-mode save produces has the status the form shows at the save
C8_CreatedHasFormStatus ==
    [][ /\ last'.op = "handleAddTask" => form'[1].status = "pending"
        /\ last'.op = "handleSaveCreate" => tasks'[Len(tasks')].status = form[1].status
      ]_vars

\* a record was created after the switch was turned to completed
C8_Witness ==
    /\ last.op = "handleSaveCreate"
    /\ tasks[Len(tasks)].status = "completed"

QueryInputs ==
    TypedQueries \cup { <<>>, <<"R", "E", "A", "D", " ", "r">>, <<"i", "o", "n">>,
                        <<"X", "x">>, <<"M", "I", "L">> }

\* C10: for every query, the displayed list holds exactly the records of the
\* collection whose title or description contains the query, case ignored,
\* each of them once
C10_DisplayedAreTheMatches ==
    \A q \in QueryInputs :
        LET shown == sortedTasks(tasks, q)
        IN /\ \A i \in 1..Len(shown) :
                 /\ shown[i] \in Range(tasks)
                 /\ \/ ContainsIgnoringCase(shown[i].title, q)
                    \/ ContainsIgnoringCase(shown[i].description, q)
           /\ \A i \in 1..Len(tasks) :
                 (\/ ContainsIgnoringCase(tasks[i].title, q)
                  \/ ContainsIgnoringCase(tasks[i].description, q))
                 => tasks[i] \in Range(shown)
           /\ \A i \in 1..Len(shown) : \A j \in 1..Len(shown) :
                 shown[i] = shown[j] => i = j

\* the upper-case query TASK is typed and the list shows the two of the three
\* initial records that hold "Task" or "task"
C10_Witness ==
    /\ searchQuery = <<"T", "A", "S", "K">>
    /\ Len(tasks) = 3
    /\ Ids(sortedTasks(tasks, searchQuery)) = {"1", "3"}

-----------------------------------------------------------------------------
(* The order of the displayed list *)

\* in list, pending records come before completed ones, and of two records
\* of one status the one created later comes first
PendingFirstNewestFirst(list) ==
    \A i \in 1..Len(list) : \A j \in 1..Len(list) :
        /\ (list[i].status = "pending" /\ list[j].status = "completed") => i < j
        /\ (list[i].status = list[j].status /\ list[i].createdAt > list[j].createdAt) => i < j

IdsInOrder(list) == [i \in 1..Len(list) |-> list[i].id]

\* C11: in the displayed list of every query, a pending record comes before
\* every completed one, and of two records of the same status the one with
\* the later createdAt comes first
C11_DisplayedOrder ==
    \A q \in TypedQueries \cup {<<>>} : PendingFirstNewestFirst(sortedTasks(tasks, q))

\* records 1 and 3 have swapped their statuses and the query TASK is typed:
\* the list shows 3 before 1, the reverse of their order in the collection
C11_Witness ==
    /\ searchQuery = <<"T", "A", "S", "K">>
    /\ IdsInOrder(tasks) = <<"1", "2", "3">>
    /\ IdsInOrder(sortedTasks(tasks, searchQuery)) = <<"3", "1">>

\* C12: with the empty query the displayed list holds every record of the
\* collection exactly once, is as long as the collection, and is in the
\* pending-first, newest-first order
C12_EmptyQueryShowsAll ==
    LET shown == sortedTasks(tasks, <<>>)
    IN /\ Len(shown) = Len(tasks)
       /\ \A i \in 1..Len(tasks) :
             Cardinality({j \in 1..Len(shown) : shown[j] = tasks[i]}) = 1
       /\ PendingFirstNewestFirst(shown)

\* the search box is empty, a fourth record was created and a record was
\* completed: the list shows all four, the new one first
C12_Witness ==
    /\ searchQuery = <<>>
    /\ Len(tasks) = 4
    /\ Len(sortedTasks(tasks, <<>>)) = 4
    /\ sortedTasks(tasks, <<>>)[1] = tasks[4]
    /\ \E i \in 1..3 : tasks[i].status = "completed" /\ tasks[i].id # "3"

-----------------------------------------------------------------------------
(* HomeScreen over the collection of the specification's example: Buy milk *)
(* (pending, T1), Read docs (pending, T2 > T1), Done task (completed, T3), *)
(* for every choice of the three instants up to ExampleMaxTime.            *)

ExampleMaxTime == 4

BuyMilk == <<"B", "u", "y", " ", "m", "i", "l", "k">>
ReadDocs == <<"R", "e", "a", "d", " ", "d", "o", "c", "s">>
DoneTask == <<"D", "o", "n", "e", " ", "t", "a", "s", "k">>

ExampleTasks(T1, T2, T3) ==
    << Task("1", BuyMilk, <<>>, T1, "pending"),
       Task("2", ReadDocs, <<>>, T2, "pending"),
       Task("3", DoneTask, <<>>, T3, "completed") >>

ExampleQueries == { <<"b", "u", "y">>, <<"D", "O">> }

ExampleInit ==
    /\ root = "App"
    /\ \E T1 \in 1..(ExampleMaxTime - 1) : \E T2 \in (T1 + 1)..ExampleMaxTime :
       \E T3 \in 1..(ExampleMaxTime + 1) :
          /\ tasks = ExampleTasks(T1, T2, T3)
          /\ ideal = tasks
          /\ born = {<<tasks[i].id, tasks[i].createdAt>> : i \in 1..Len(tasks)}
    /\ now = LoadTime
    /\ searchQuery = <<>>
    /\ detail = <<>> /\ form = <<>> /\ alert = <<>> /\ pending = <<>>
    /\ taskForm = [task |-> <<>>, title |-> <<>>, description |-> <<>>, error |-> ""]
    /\ submitted = <<>>
    /\ last = [op |-> "init", id |-> ""]
    /\ deleted = {}
    /\ nEvents = 0

ExampleNext ==
    \/ \E q \in ExampleQueries : setSearchQuery(q)
    \/ clearSearch

ExampleSpec == ExampleInit /\ [][ExampleNext]_vars

TitlesInOrder(list) == [i \in 1..Len(list) |-> list[i].title]

\* C13: over the example collection, the list displayed for the empty query
\* is Read docs, Buy milk, Done task, and the list displayed for the query
\* "buy" is Buy milk alone
C13_ExampleScenario ==
    /\ TitlesInOrder(sortedTasks(tasks, <<>>)) = <<ReadDocs, BuyMilk, DoneTask>>
    /\ TitlesInOrder(sortedTasks(tasks, <<"b", "u", "y">>)) = <<BuyMilk>>

\* "buy" is typed over an example collection whose completed record is the
\* newest of the three, and the search was cleared before
C13_Witness ==
    /\ searchQuery = <<"b", "u", "y">>
    /\ TitlesInOrder(tasks) = <<BuyMilk, ReadDocs, DoneTask>>
    /\ tasks[3].createdAt > tasks[2].createdAt
    /\ nEvents >= 3

-----------------------------------------------------------------------------
(* App's three callbacks called as HomeScreen receives them: each call     *)
(* through the props of the latest render, with any argument of the        *)
(* parameter's type.                                                       *)

\* an instant that is no stored record's createdAt
OtherTime == LoadTime - 3 * DayMs

NewTitle == <<"n", "e", "w">>

\* records handed to onAddTask
AddInputs == { Task(id, NewTitle, <<>>, LoadTime + 1, "pending") : id \in {"8", "9"} }

\* records handed to onUpdate: ids that are stored at first, an id that is
\* added later and an id that never is; createdAt as stored for 2, or another
UpdateInputs ==
    { Task(id, NewTitle, <<>>, createdAt, status) :
        id \in {"2", "9", "7"},
        createdAt \in {LoadTime - DayMs, OtherTime},
        status \in {"pending", "completed"} }

\* ids handed to onDelete
DeleteInputs == {"1", "9", "7"}

StoreAdd(newTask) ==
    /\ tasks' = handleAddTask(tasks, newTask)
    /\ ideal' = handleAddTask(ideal, newTask)
    /\ born' = born \cup {<<newTask.id, newTask.createdAt>>}
    /\ DidOn("StoreAdd", newTask.id)
    /\ UNCHANGED <<now, searchQuery, detail, form, alert, pending, taskForm, submitted,
                   deleted>>

StoreUpdate(updatedTask) ==
    /\ tasks' = handleUpdateTask(tasks, updatedTask)
    /\ ideal' = handleUpdateTask(ideal, updatedTask)
    /\ DidOn("StoreUpdate", updatedTask.id)
    /\ UNCHANGED <<now, searchQuery, detail, form, alert, pending, taskForm, submitted,
                   deleted, born>>

StoreDelete(taskId) ==
    /\ tasks' = handleDeleteTask(tasks, taskId)
    /\ ideal' = handleDeleteTask(ideal, taskId)
    /\ deleted' = IF taskId \in Ids(tasks) THEN deleted \cup {taskId} ELSE deleted
    /\ DidOn("StoreDelete", taskId)
    /\ UNCHANGED <<now, searchQuery, detail, form, alert, pending, taskForm, submitted,
                   born>>

StoreInit == Init /\ root = "App"

StoreNext ==
    \/ \E newTask \in AddInputs : newTask.id \notin Ids(tasks) /\ StoreAdd(newTask)
    \/ \E updatedTask \in UpdateInputs : StoreUpdate(updatedTask)
    \/ \E taskId \in DeleteInputs : StoreDelete(taskId)

StoreSpec == StoreInit /\ [][StoreNext]_vars

\* C14: an update with a record whose id is stored leaves the stored
\* record's createdAt as it was, whatever createdAt the passed record has
C14_UpdateKeepsStoredCreatedAt ==
    [][ last'.op = "StoreUpdate" =>
           \A i \in 1..Len(tasks) :
               tasks[i].id = last'.id =>
                   /\ tasks'[i].id = tasks[i].id
                   /\ tasks'[i].createdAt = tasks[i].createdAt
      ]_vars

UpdateOps == {"HomeToggle", "DetailToggle", "AlertUndo", "handleSaveEdit"}

\* C15: an update or a status toggle for an id that no record of the
\* collection has leaves the collection as it was: same records, same
\* fields, same order, same size
C15_AbsentIdIsNoOp ==
    [][ (last'.op \in UpdateOps /\ last'.id \notin Ids(tasks)) => tasks' = tasks ]_vars

DeleteOps == {"HomeDelete", "FadeOutEnd"}

\* after is before without the records that have the id: the others are all
\* there, as they were and in the same order, and nothing else is
IsBeforeWithout(after, before, id) ==
    LET keep == {i \in 1..Len(before) : before[i].id # id}
    IN /\ Len(after) = Cardinality(keep)
       /\ \A i \in keep : after[Cardinality({j \in keep : j <= i})] = before[i]

\* C16: a remove call for an id takes the record with that id out of the
\* current collection and leaves every other record present, unchanged and
\* in the same relative order; with no such record the collection is unchanged
C16_RemoveTakesOnlyThatRecord ==
    [][ last'.op \in DeleteOps => IsBeforeWithout(tasks', tasks, last'.id) ]_vars

\* C17: an add call leaves the collection as it was just before the call
\* with the new record after all the others: one record more, every
\* earlier record at its place and unchanged
C17_AddAppends ==
    [][ last'.op = "handleSaveCreate" =>
           /\ Len(tasks') = Len(tasks) + 1
           /\ \A i \in 1..Len(tasks) : tasks'[i] = tasks[i]
           /\ tasks'[Len(tasks')].id = last'.id
           /\ last'.id \notin Ids(tasks)
      ]_vars

\* a record was added to a collection whose first record had been completed
\* before: it is the fourth, after the three that were there
C17_Witness ==
    /\ last.op = "handleSaveCreate"
    /\ IdsInOrder(SubSeq(tasks, 1, 3)) = <<"1", "2", "3">>
    /\ tasks[1].status = "completed"
    /\ Len(tasks) = 4
    /\ tasks[4].id = last.id

QueryOps == {"setSearchQuery", "clearSearch"}

\* C18: computing the displayed list leaves the collection as it was, records
\* and order, for every query; and a change of the search query alone leaves
\* the collection as it was
C18_ViewLeavesStoreAlone ==
    [][ /\ \A q \in TypedQueries \cup {<<>>} :
              /\ render(tasks', q).tasks = tasks'
              /\ render(tasks', q).sortedTasks = sortedTasks(tasks', q)
        /\ last'.op \in QueryOps => (tasks' = tasks /\ ideal' = ideal)
      ]_vars

\* a query was typed over a collection that is stored in another order than
\* it is displayed in
C18_Witness ==
    /\ last.op = "setSearchQuery"
    /\ searchQuery = <<"T", "A", "S", "K">>
    /\ IdsInOrder(tasks) = <<"1", "2", "3">>
    /\ IdsInOrder(sortedTasks(tasks, <<>>)) = <<"2", "1", "3">>

\* C19 as claimed: a record leaves the collection only in the remove call
\* that follows a confirmed prompt for that task, whatever delete control
\* was used, and Cancel leaves the collection as it was
C19_RemovalOnlyAfterConfirm ==
    [][ /\ \A id \in Ids(tasks) \ Ids(tasks') :
              /\ last'.op = "FadeOutEnd"
              /\ pending # <<>>
              /\ Head(pending).id = id
        /\ last'.op = "AlertDismiss" => tasks' = tasks
      ]_vars

\* C19 as amended: the detail screen's Delete button only opens the prompt
\* "Confirm Delete" for its task; a deletion is started only by the prompt's
\* Delete button, for the task of the prompt; the detail screen's remove call
\* is for a task whose deletion was started so; Cancel starts nothing and
\* leaves the collection as it was; the home list's delete icon removes its
\* task at once, with no prompt
C19_DetailDeleteIsConfirmed ==
    [][ /\ last'.op = "handleDelete" =>
              /\ tasks' = tasks /\ pending' = pending
              /\ alert' # <<>>
              /\ alert'[1].kind = "Confirm Delete"
              /\ alert'[1].task.id = detail[1].task.id
        /\ pending' # pending =>
              \/ /\ last'.op = "AlertDelete"
                 /\ alert # <<>>
                 /\ alert[1].kind = "Confirm Delete"
                 /\ pending' = Append(pending, [id |-> alert[1].task.id,
                                                snap |-> alert[1].snap, at |-> nEvents + 1])
                 /\ tasks' = tasks
              \/ /\ last'.op = "FadeOutEnd"
                 /\ pending' = Tail(pending)
                 /\ last'.id = Head(pending).id
                 /\ last'.id \notin Ids(tasks')
        /\ last'.op = "FadeOutEnd" => pending' # pending
        /\ last'.op = "AlertDismiss" => (tasks' = tasks /\ pending' = pending)
        /\ last'.op = "HomeDelete" => (alert' = <<>> /\ last'.id \notin Ids(tasks'))
      ]_vars

\* task 2 was deleted from its detail screen: the prompt was confirmed and
\* the fade-out has ended
C19_Witness ==
    /\ last.op = "FadeOutEnd"
    /\ last.id = "2"
    /\ IdsInOrder(tasks) = <<"1", "3">>
    /\ pending = <<>>

\* C20: an edit form opens with the status of the record it was opened for;
\* while it is open its status changes only when the user moves the switch;
\* and the record a save stores has the status the form shows.  So a save
\* without a move of the switch stores the status of the opened record.
\* TaskForm, which has no switch, submits the status of the record it edits.
C20_EditKeepsStatus ==
    [][ /\ last'.op = "handleEdit" =>
              /\ form'[1].task = <<detail[1].task>>
              /\ form'[1].status = detail[1].task.status
        /\ (form # <<>> /\ form' # <<>> /\ form'[1].status # form[1].status) =>
              last'.op = "handleStatusToggle"
        /\ last'.op = "handleSaveEdit" =>
              \A i \in 1..Len(tasks') :
                  tasks'[i].id = form[1].task[1].id => tasks'[i].status = form[1].status
        /\ (last'.op = "handleSubmit" /\ taskForm.task # <<>> /\ Len(submitted') > Len(submitted)) =>
              submitted'[Len(submitted')].status = taskForm.task[1].status
      ]_vars

\* the completed record 3 was opened for editing, given another title and
\* saved, the switch untouched: it is stored completed
C20_Witness ==
    /\ last.op = "handleSaveEdit"
    /\ last.id = "3"
    /\ \E i \in 1..Len(tasks) :
          /\ tasks[i].id = "3"
          /\ tasks[i].title = Rep("x", 48)
          /\ tasks[i].status = "completed"
    /\ alert = <<>>


ToggleOps == {"HomeToggle", "DetailToggle"}

\* C21: an update or a status toggle leaves the collection as long as it
\* was, leaves every record with another id as it was and where it was,
\* leaves the record with the id at its position, and a toggle leaves that
\* record's title, description, id and createdAt as they were
C21_UpdateChangesOnlyTarget ==
    [][ last'.op \in UpdateOps =>
           /\ Len(tasks') = Len(tasks)
           /\ \A i \in 1..Len(tasks) :
                 /\ tasks[i].id # last'.id => tasks'[i] = tasks[i]
                 /\ tasks[i].id = last'.id =>
                       /\ tasks'[i].id = tasks[i].id
                       /\ last'.op \in ToggleOps =>
                             /\ tasks'[i].title = tasks[i].title
                             /\ tasks'[i].description = tasks[i].description
                             /\ tasks'[i].createdAt = tasks[i].createdAt
      ]_vars


\* C22: every record of the collection has a title that is not empty, is at
\* most 50 characters long, and neither begins nor ends with white space
C22_TitlesValid ==
    \A i \in 1..Len(tasks) :
        LET title == tasks[i].title
        IN /\ Len(title) >= 1
           /\ Len(title) <= 50
           /\ title[1] \notin WhiteSpace
           /\ title[Len(title)] \notin WhiteSpace

\* an edit of record 1 was saved with a title of 50 characters
C22_Witness ==
    /\ last.op = "handleSaveEdit"
    /\ last.id = "1"
    /\ \E i \in 1..Len(tasks) : tasks[i].id = "1" /\ tasks[i].title = Rep("x", 50)


-----------------------------------------------------------------------------
(* TaskFormScreen's validation over any title state: onChangeText called   *)
(* with texts of every length around the limit, as by an input that does   *)
(* not hold the text to maxLength.                                         *)

\* title states: 50 and 51 characters bare, and 50, 51 and 45 characters
\* within white space, one character, and white space only
ValidatorTitles ==
    { Rep("x", 50),
      <<" ">> \o Rep("x", 50) \o <<" ">>,
      Rep("x", 51),
      <<"\t">> \o Rep("x", 51),
      Rep(" ", 10) \o Rep("x", 45),
      <<"x">>,
      Rep(" ", 51) }

ValidatorInit == Init /\ root = "App"

ValidatorNext ==
    \/ HomeHandleAddTask
    \/ \E item \in Range(sortedTasks(tasks, searchQuery)) : handleTaskPress(item)
    \/ handleEdit
    \/ \E text \in ValidatorTitles : onChangeText(text)
    \/ handleSaveRejected
    \/ handleSaveCreate
    \/ handleSaveEdit
    \/ FormCancel

ValidatorSpec == ValidatorInit /\ [][ValidatorNext]_vars

\* the title of the record with the id in ts
TitleOf(ts, id) == (CHOOSE t \in Range(ts) : t.id = id).title

\* C23: a save of a title that is not blank and at most 50 long without its
\* leading and trailing white space is accepted, however long the title is
\* with them, and stores the title without them; a save of a title longer
\* than 50 without them is rejected with the too-long error and stores
\* nothing
C23_LimitIsInclusiveAfterTrim ==
    [][ last'.op \in SaveOps =>
           LET title == form[1].title
           IN /\ (~Blank(title) /\ ~LongAfterTrim(title)) =>
                    /\ last'.op # "handleSaveRejected"
                    /\ last'.id \in Ids(tasks')
                    /\ IsTrimOf(TitleOf(tasks', last'.id), title)
              /\ LongAfterTrim(title) =>
                    /\ last'.op = "handleSaveRejected"
                    /\ form'[1].titleError = ErrTooLong
                    /\ tasks' = tasks
      ]_vars

\* a record with a title of exactly 50 characters was created
C23_Witness ==
    /\ last.op = "handleSaveCreate"
    /\ Len(tasks) = 4
    /\ tasks[4].title = Rep("x", 50)
    /\ tasks[4].description = <<>>


-----------------------------------------------------------------------------
(* The order of records the comparator does not tell apart *)

\* the place of the record with the id in list
PlaceOf(list, id) == CHOOSE k \in 1..Len(list) : list[k].id = id

StableQueries == { <<>>, <<"n", "e", "w">>, <<"T", "A", "S", "K">> }

-----------------------------------------------------------------------------
(* The text shown in place of an empty list *)

\* C25: "No tasks yet" is shown exactly when the collection is empty, and
\* "No matching tasks found" exactly when the collection is not empty and no
\* record of it matches the query
C25_EmptyTextTellsWhy ==
    LET text == ListEmptyComponent(sortedTasks(tasks, searchQuery), searchQuery)
    IN /\ text = NoTasksYet <=> tasks = <<>>
       /\ text = NoMatching <=>
             (tasks # <<>> /\ \A i \in 1..Len(tasks) : ~matches(tasks[i], searchQuery))


-----------------------------------------------------------------------------
(* TaskDetailScreen from its mounting on: the screen is open for one of    *)
(* the initial records, and the handlers of the screen, of its alerts and  *)
(* of the form it opens run.                                               *)

DetailInit ==
    /\ root = "App"
    /\ tasks = mockTasks
    /\ now = LoadTime
    /\ searchQuery = <<>>
    /\ \E item \in Range(sortedTasks(mockTasks, <<>>)) :
          detail = << [task |-> item, snap |-> mockTasks] >>
    /\ form = <<>>
    /\ alert = <<>>
    /\ pending = <<>>
    /\ taskForm = [task |-> <<>>, title |-> <<>>, description |-> <<>>, error |-> ""]
    /\ submitted = <<>>
    /\ last = [op |-> "handleTaskPress", id |-> ""]
    /\ ideal = mockTasks
    /\ deleted = {}
    /\ born = {<<mockTasks[i].id, mockTasks[i].createdAt>> : i \in 1..Len(mockTasks)}
    /\ nEvents = 0

DetailNext ==
    \/ DetailHandleToggleStatus
    \/ AlertDismiss
    \/ AlertUndo
    \/ handleEdit
    \/ handleDelete
    \/ AlertDelete
    \/ FadeOutEnd
    \/ \E t \in TitleInputs : FormSetTitle(t)
    \/ \E v \in BOOLEAN : handleStatusToggle(v)
    \/ handleSaveRejected
    \/ handleSaveEdit
    \/ FormCancel

DetailSpec == DetailInit /\ [][DetailNext]_vars

\* C26: Undo in the prompt of a status toggle leaves the collection as it
\* was just before the toggle, and the detail screen's task as it was then
C26_UndoReversesToggle ==
    [][ last'.op = "AlertUndo" =>
           /\ tasks' = alert[1].before.tasks
           /\ detail' # <<>> => detail'[1].task = alert[1].before.task
      ]_vars


-----------------------------------------------------------------------------
(* HomeScreen's search over records whose texts hold the characters that   *)
(* have a meaning in a regular expression: the user creates such records   *)
(* and types such queries.                                                 *)

SpecialTitles ==
    { <<"a", "(">>, <<"(", "a", ")">>, <<"a", "*">>, <<"[", "a", "]">>, <<"a", "\\">> }

SpecialQueries ==
    { <<"(">>, <<"[">>, <<"*">>, <<"\\">>, <<"(", "a", ")">>, <<"a">>, <<" ">> }

SearchInit == Init /\ root = "App"

SearchNext ==
    \/ HomeHandleAddTask
    \/ \E t \in SpecialTitles : FormSetTitle(t)
    \/ handleSaveCreate
    \/ FormCancel
    \/ \E q \in SpecialQueries : setSearchQuery(q)
    \/ clearSearch
    \/ \E item \in Range(sortedTasks(tasks, searchQuery)) : HomeDelete(item.id)

SearchSpec == SearchInit /\ [][SearchNext]_vars

\* C27: for every collection and every search query, the render of the
\* displayed list, the highlighting of the query in the titles included,
\* completes without throwing
C27_RenderCompletes == ~RenderThrows(tasks, searchQuery)


C29_CreatedIsNewest ==
    last.op = "handleSaveCreate" =>
        LET new == tasks[Len(tasks)]
            shown == sortedTasks(tasks, <<>>)
        IN /\ new.id = last.id
           /\ \A i \in 1..(Len(tasks) - 1) : new.createdAt >= tasks[i].createdAt
           /\ new.status = "pending" => shown[1] = new
           /\ new.status = "completed" =>
                 \A k \in 1..Len(shown) :
                     shown[k].status = "completed" => PlaceOf(shown, new.id) <= k

\* a completed record was just created beside the three initial ones: the
\* list shows it after the two pending records and before the completed one
C29_Witness ==
    /\ last.op = "handleSaveCreate"
    /\ Len(tasks) = 4
    /\ tasks[4].status = "completed"
    /\ IdsInOrder(sortedTasks(tasks, <<>>)) = <<"1", "2", last.id, "3">>

=============================================================================
